---- MODULE Spec2Model ----
(***************************************************************************)
(* Model of src/telegram.py: the per-channel backward pagination walker    *)
(* (TelegramChannelScraper), its bounded-retry fetch, its two-strategy     *)
(* message parser, and the coordinator that runs one walker per channel    *)
(* and aggregates their posts (TelegramMultiChannelScraper, main).         *)
(*                                                                         *)
(* One action is one uninterrupted run of a coroutine between two awaits:  *)
(* asyncio schedules the walkers cooperatively, so everything a walker     *)
(* does between receiving a response and its next await is one step.       *)
(***************************************************************************)
EXTENDS Integers, Sequences, FiniteSets, TLC

\* Longest page (number of message fragments) the server is made to return.
MaxPageLen == 2

\* the number of responses recorded for a logged walker
MaxLog == 2

\* DEFAULT_CONFIG["max_retries"] and DEFAULT_CONFIG["max_empty_pages"].
max_retries == 3
max_empty_pages == 3

\* Python's None (oldest_id / newest_id before any message was seen).
None == "None"

\* Truthiness of an Optional[str]: None and "" are falsy.
Truthy(s) == s # None /\ s # ""

\* int(s) for the id strings of the model; anything else raises ValueError.
IntStrings == <<"1", "2", "3">>
IsInt(s) == \E n \in 1..Len(IntStrings) : IntStrings[n] = s
int(s) == CHOOSE n \in 1..Len(IntStrings) : IntStrings[n] = s

\* The ISO-8601 timestamps of the model, in lexicographic (str.__lt__) order.
D1 == "2024-01-01T00:00:00+00:00"
D2 == "2024-01-02T00:00:00+00:00"
D3 == "2024-01-03T00:00:00+00:00"
DateOrder == <<"", D1, D2, D3>>
DateRank(d) == CHOOSE n \in 1..Len(DateOrder) : DateOrder[n] = d

\* TelegramPost(message_id, date, text, photo_url)
TelegramPost(id, date, text, photo) ==
    [message_id |-> id, date |-> date, text |-> text, photo_url |-> photo]

Keys == {"message_id", "date", "text", "photo_url"}

(***************************************************************************)
(* A message fragment is represented by what the two extraction strategies *)
(* obtain from it (or by the fact that extraction raises).                 *)
(***************************************************************************)
Fragment(raises, b, r) == [raises |-> raises, bs4 |-> b, regex |-> r]

\* photo only; the two strategies disagree on the URL
M3 == Fragment(FALSE, TelegramPost("3", D3, "", "http://x/img.jpg"),
                      TelegramPost("3", D3, "", "http://y/img.jpg"))
\* the same message id served again with another body
M3b == Fragment(FALSE, TelegramPost("3", D3, "edited", ""),
                       TelegramPost("3", D3, "edited", ""))
\* markup drift: the structured strategy finds nothing, the patterns do
M2 == Fragment(FALSE, TelegramPost("", "", "", ""),
                      TelegramPost("2", D2, "hello", ""))
M1 == Fragment(FALSE, TelegramPost("1", D1, "first", ""),
                      TelegramPost("1", D1, "first", ""))
\* service message: id but neither text nor photo
Svc2 == Fragment(FALSE, TelegramPost("2", D2, "", ""),
                        TelegramPost("2", D2, "", ""))
\* no data-post attribute at all
NoId == Fragment(FALSE, TelegramPost("", D1, "orphan", ""),
                        TelegramPost("", D1, "orphan", ""))
\* data-post="chan/x": bs4 takes the last path segment, the \d+ pattern fails
BadId == Fragment(FALSE, TelegramPost("x", D2, "odd", ""),
                         TelegramPost("", D2, "odd", ""))
\* photo wrap whose style has no quoted URL: split("'")[1] raises IndexError
Boom == Fragment(TRUE, TelegramPost("", "", "", ""),
                       TelegramPost("", "", "", ""))

Fragments == {M3, M3b, M2, M1, Svc2, NoId, BadId, Boom}

RECURSIVE Flatten(_)
Flatten(ss) == IF ss = <<>> THEN <<>> ELSE Head(ss) \o Flatten(Tail(ss))

Seq2Set(s) == {s[i] : i \in 1..Len(s)}

(***************************************************************************)
(* The runs explored: a configuration (config['channels'] and              *)
(* config['start_ids'], None where the channel has no entry) and, for each *)
(* channel, the fragments its server may put on a page.  A channel         *)
(* scraped alone is served every kind of fragment; two channels scraped    *)
(* together are each served two plain messages.                            *)
(***************************************************************************)
Scenario(chs, starts, frags) ==
    [channels |-> chs, start_ids |-> starts, server |-> frags]

Scenarios ==
    { Scenario(<<"A">>, [c \in {"A"} |-> s], [c \in {"A"} |-> Fragments])
        : s \in {None, "3", "1"} }
    \cup
    { Scenario(<<"B", "A">>,
               [c \in {"A", "B"} |-> IF c = "B" THEN "3" ELSE None],
               [c \in {"A", "B"} |-> IF c = "A" THEN {M3, M2} ELSE {M2, M1}]) }

VARIABLES
    channels,             \* config['channels']
    start_ids,            \* config['start_ids'].get(channel)
    server,               \* the fragments each channel's server may serve
    posts,                \* scraper.posts: the dict's items, in insertion order
    oldest_id,            \* scraper.oldest_id (the cursor)
    newest_id,            \* scraper.newest_id (the high-water mark)
    empty_page_count,     \* scraper.empty_page_count
    pc,                   \* where each scrape_channel coroutine is
    attempt,              \* get_page_content: loop variable of the retry loop
    before,               \* get_page_content: the cursor of the fetch in flight
    stop_reason,          \* why scrape_channel left its loop
    emptyStreak,          \* history: consecutive pages with zero fragments
    main_pc,              \* where main() is
    sorted_posts,         \* save_results: the sequence handed to the sink
    config_file,          \* what load_config finds at args.config
    args,                 \* parse_arguments(): the command line (channels)
    message_html,         \* parse_message: its argument, as a Fragment
    parsed_message,       \* parse_message: <<>> before the call, <<result>> after
    log                   \* history: the responses each logged walker has received

cfgvars == <<channels, start_ids, server>>

\* the configured channels: one TelegramChannelScraper each (lines 325-328)
Channels == Seq2Set(channels)

\* soup.select(".tgme_widget_message_wrap"): the fragments of a page, in order
Pages(c) == UNION {[1..n -> server[c]] : n \in 0..MaxPageLen}

\* what a run of the walkers never changes: the startup inputs and the
\* parser's own input and result
auxvars == <<config_file, args, message_html, parsed_message>>

vars == <<channels, start_ids, server, posts, oldest_id, newest_id, empty_page_count, pc, attempt,
          before, stop_reason, emptyStreak, main_pc, sorted_posts, auxvars, log>>

\* a readable configuration file holding the given channels and start ids
ConfigFile(status, chs, starts) ==
    [status |-> status, channels |-> chs, start_ids |-> starts]

\* the parsed command line; channels = <<>> when --channels is not given
Args(chs) == [channels |-> chs]

\* TelegramChannelScraper.__init__ for every channel, and main() up to gather
Init ==
    /\ \E sc \in Scenarios :
          /\ channels = sc.channels
          /\ start_ids = sc.start_ids
          /\ server = sc.server
    /\ posts = [c \in Channels |-> <<>>]
    /\ oldest_id = start_ids
    /\ newest_id = [c \in Channels |-> None]
    /\ empty_page_count = [c \in Channels |-> 0]
    /\ pc = [c \in Channels |-> "created"]
    /\ attempt = [c \in Channels |-> 0]
    /\ before = [c \in Channels |-> None]
    /\ stop_reason = [c \in Channels |-> ""]
    /\ emptyStreak = [c \in Channels |-> 0]
    /\ main_pc = "gather"
    /\ sorted_posts = <<>>
    /\ config_file = ConfigFile("ok", channels, start_ids)
    /\ args = Args(<<>>)
    /\ message_html = Boom
    /\ parsed_message = <<>>
    /\ log = <<>>

(***************************************************************************)
(* The dual extractor                                                      *)
(***************************************************************************)
parse_with_bs4(f) == f.bs4
parse_with_regex(f) == f.regex

\* variant of MergeParsed whose test is "if value": a later parser's
\* non-empty value replaces the value already there
MergeParsed_overwrite(result, parsed) ==
    [k \in Keys |-> IF parsed[k] # "" THEN parsed[k] ELSE result[k]]

\* one pass of the inner loop of parse_message: fill the fields still empty
MergeParsed(result, parsed) ==
    [k \in Keys |-> IF result[k] = "" /\ parsed[k] # "" THEN parsed[k] ELSE result[k]]

parse_message(f) ==
    MergeParsed(MergeParsed(TelegramPost("", "", "", ""), parse_with_bs4(f)),
                parse_with_regex(f))

(***************************************************************************)
(* self.posts, a dict: its items as a sequence in insertion order          *)
(***************************************************************************)
PostIds(p) == {p[i].message_id : i \in 1..Len(p)}

\* message_id in self.posts
InPosts(id, p) == id \in PostIds(p)

\* self.posts[message_id] = parsed_message
DictSet(p, id, m) ==
    IF InPosts(id, p)
    THEN [i \in 1..Len(p) |-> IF p[i].message_id = id THEN m ELSE p[i]]
    ELSE Append(p, m)

(***************************************************************************)
(* scrape_channel: the body of the per-fragment loop                       *)
(***************************************************************************)
\* variant of Retained that forgets the text/photo test
Retained_idOnly(m) == m.message_id # ""

\* line 287: message_id and (text or photo_url)
Retained(m) == m.message_id # "" /\ (m.text # "" \/ m.photo_url # "")

\* variant of IsNewId without the membership test
IsNewId_always(id, p) == TRUE

\* line 288: message_id not in self.posts
IsNewId(id, p) == ~InPosts(id, p)

\* variant of UpdateMarks with the comparison of line 294 reversed
UpdateMarks_reversed(st, id) ==
    LET raise292 == Truthy(st.newest) /\ (~IsInt(id) \/ ~IsInt(st.newest))
        set292 == ~Truthy(st.newest) \/ int(id) > int(st.newest)
        s1 == IF set292 THEN [st EXCEPT !.newest = id] ELSE st
        raise294 == Truthy(s1.oldest) /\ (~IsInt(id) \/ ~IsInt(s1.oldest))
        set294 == ~Truthy(s1.oldest) \/ int(id) > int(s1.oldest)
    IN  IF raise292 THEN st
        ELSE IF raise294 THEN s1
        ELSE IF set294 THEN [s1 EXCEPT !.oldest = id]
        ELSE s1

\* variant of UpdateMarks where the cursor follows the last record stored
UpdateMarks_lastStored(st, id) ==
    LET raise292 == Truthy(st.newest) /\ (~IsInt(id) \/ ~IsInt(st.newest))
        set292 == ~Truthy(st.newest) \/ int(id) > int(st.newest)
        s1 == IF set292 THEN [st EXCEPT !.newest = id] ELSE st
    IN  IF raise292 THEN st ELSE [s1 EXCEPT !.oldest = id]

\* variant of UpdateMarks whose line 292 is "if not self.newest_id": the
\* first stored id stays the newest
UpdateMarks_newestOnce(st, id) ==
    LET s1 == IF ~Truthy(st.newest) THEN [st EXCEPT !.newest = id] ELSE st
        raise294 == Truthy(s1.oldest) /\ (~IsInt(id) \/ ~IsInt(s1.oldest))
        set294 == ~Truthy(s1.oldest) \/ int(id) < int(s1.oldest)
    IN  IF raise294 THEN s1
        ELSE IF set294 THEN [s1 EXCEPT !.oldest = id]
        ELSE s1

\* lines 292-295 once the record is stored: int() of a non-numeric id raises
\* ValueError, which the per-fragment handler catches, leaving the marks as
\* they were when it was raised
UpdateMarks(st, id) ==
    LET raise292 == Truthy(st.newest) /\ (~IsInt(id) \/ ~IsInt(st.newest))
        set292 == ~Truthy(st.newest) \/ int(id) > int(st.newest)
        s1 == IF set292 THEN [st EXCEPT !.newest = id] ELSE st
        raise294 == Truthy(s1.oldest) /\ (~IsInt(id) \/ ~IsInt(s1.oldest))
        set294 == ~Truthy(s1.oldest) \/ int(id) < int(s1.oldest)
    IN  IF raise292 THEN st
        ELSE IF raise294 THEN s1
        ELSE IF set294 THEN [s1 EXCEPT !.oldest = id]
        ELSE s1

\* lines 284-299 for one fragment; st = [posts, oldest, newest, new]
ProcessFragment(st, f) ==
    IF f.raises THEN st
    ELSE LET m == parse_message(f)
             id == m.message_id
         IN  IF Retained(m)
             THEN IF IsNewId(id, st.posts)
                  THEN UpdateMarks([st EXCEPT !.posts = DictSet(@, id, m),
                                              !.new = @ + 1], id)
                  ELSE st
             ELSE st

\* whether lines 292-295 raise for a record just stored: int() of a
\* non-numeric id, newest_id or oldest_id (ValueError)
MarksRaise(st, id) ==
    LET raise292 == Truthy(st.newest) /\ (~IsInt(id) \/ ~IsInt(st.newest))
        s1 == IF ~Truthy(st.newest) THEN [st EXCEPT !.newest = id] ELSE st
        raise294 == Truthy(s1.oldest) /\ (~IsInt(id) \/ ~IsInt(s1.oldest))
    IN  raise292 \/ raise294

\* whether the try block of lines 284-297 raises for fragment f, so that the
\* handler of line 298 runs
FragmentRaises(st, f) ==
    \/ f.raises
    \/ LET m == parse_message(f)
       IN  Retained(m) /\ IsNewId(m.message_id, st.posts) /\ MarksRaise(st, m.message_id)

\* variant of ProcessFragments with the try around the whole loop: the
\* first fragment that raises ends the processing of the page
RECURSIVE ProcessFragments_abort(_, _)
ProcessFragments_abort(st, page) ==
    IF page = <<>> THEN st
    ELSE IF FragmentRaises(st, Head(page)) THEN ProcessFragment(st, Head(page))
    ELSE ProcessFragments_abort(ProcessFragment(st, Head(page)), Tail(page))

RECURSIVE ProcessFragments(_, _)
ProcessFragments(st, page) ==
    IF page = <<>> THEN st
    ELSE ProcessFragments(ProcessFragment(st, Head(page)), Tail(page))

\* variant of EmptyLimitReached with a strict comparison
EmptyLimitReached_strict(count) == count > max_empty_pages

\* lines 275 and 305
EmptyLimitReached(count) == count >= max_empty_pages

\* variant of EarliestCheck that stops only below id 1
EarliestCheck_below(oldest) ==
    IF ~Truthy(oldest) THEN "sleep"
    ELSE IF ~IsInt(oldest) THEN "error"
    ELSE IF int(oldest) < 1 THEN "earliest"
    ELSE "sleep"

\* line 311; int() of a non-numeric cursor raises into the handler of line 316
EarliestCheck(oldest) ==
    IF ~Truthy(oldest) THEN "sleep"
    ELSE IF ~IsInt(oldest) THEN "error"
    ELSE IF int(oldest) <= 1 THEN "earliest"
    ELSE "sleep"

\* variant of ProcessPage without the continue of line 279: a page without
\* fragments runs on into lines 282-315
ProcessPage_noContinue(c, page) ==
    LET st == ProcessFragments([posts |-> posts[c], oldest |-> oldest_id[c],
                                newest |-> newest_id[c], new |-> 0], page)
        c1 == IF Len(page) = 0 THEN empty_page_count[c] + 1 ELSE 0
        count == IF st.new = 0 THEN c1 + 1 ELSE 0
    IN  [posts |-> st.posts, oldest |-> st.oldest, newest |-> st.newest,
         new |-> st.new, count |-> count,
         end |-> IF Len(page) = 0 /\ EmptyLimitReached(c1) THEN "empty_limit"
                 ELSE IF st.new = 0 /\ EmptyLimitReached(count) THEN "empty_limit"
                 ELSE EarliestCheck(st.oldest)]

\* lines 270-318 for one page: the walker's fields afterwards and how the
\* iteration ends ("continue", "sleep", or the reason of the break)
\* w = [posts, oldest, newest, count]: the fields of the walker that runs them
ProcessPageFrom(w, page) ==
    IF Len(page) = 0
    THEN LET count == w.count + 1
         IN  [posts |-> w.posts, oldest |-> w.oldest, newest |-> w.newest,
              new |-> 0, count |-> count,
              end |-> IF EmptyLimitReached(count) THEN "empty_limit" ELSE "continue"]
    ELSE LET st == ProcessFragments([posts |-> w.posts, oldest |-> w.oldest,
                                     newest |-> w.newest, new |-> 0], page)
             count == IF st.new = 0 THEN 0 + 1 ELSE 0
         IN  [posts |-> st.posts, oldest |-> st.oldest, newest |-> st.newest,
              new |-> st.new, count |-> count,
              end |-> IF st.new = 0 /\ EmptyLimitReached(count) THEN "empty_limit"
                      ELSE EarliestCheck(st.oldest)]

\* self.posts, self.oldest_id, self.newest_id and empty_page_count of walker c
WalkerFields(c) ==
    [posts |-> posts[c], oldest |-> oldest_id[c], newest |-> newest_id[c],
     count |-> empty_page_count[c]]

\* variant of ProcessPage where posts is one dict shared by every walker
\* (a class attribute): line 288 looks the id up in all walkers' records
ProcessPage_sharedSeen(c, page) ==
    LET shared == Flatten([i \in 1..Len(channels) |-> posts[channels[i]]])
        r == ProcessPageFrom([WalkerFields(c) EXCEPT !.posts = shared], page)
    IN  [r EXCEPT !.posts = posts[c] \o SubSeq(r.posts, Len(shared) + 1, Len(r.posts))]

\* lines 270-318 run by walker c
ProcessPage(c, page) == ProcessPageFrom(WalkerFields(c), page)

\* history counters stop counting at max_empty_pages
Sat(n) == IF n >= max_empty_pages THEN max_empty_pages ELSE n

(***************************************************************************)
(* get_page_content                                                        *)
(***************************************************************************)
\* the call at line 266 up to the first session.get: range(max_retries) may be
\* empty, and then the call returns None without any request
\* a response of the server to one request: kind is "fail" (ClientError or
\* timeout), "empty_body" or "page"
Event(kind, page) == [kind |-> kind, page |-> page]

\* the log after walker c has received response ev; only the walkers in
\* DOMAIN log are logged
Logged(c, ev) ==
    IF c \in DOMAIN log THEN [log EXCEPT ![c] = Append(@, ev)] ELSE log

CallPc == IF max_retries > 0 THEN "fetching" ELSE "stopped"
CallReason == IF max_retries > 0 THEN "" ELSE "fetch_failed"

\* variant of HasNextAttempt that allows one attempt more
HasNextAttempt_inclusive(a) == a + 1 <= max_retries

\* line 208: range(max_retries) has another value after `a`
HasNextAttempt(a) == a + 1 < max_retries

Running == main_pc = "gather"

\* the task created by gather starts running: first call of get_page_content
Start(c) ==
    /\ Running
    /\ pc[c] = "created"
    /\ pc' = [pc EXCEPT ![c] = CallPc]
    /\ stop_reason' = [stop_reason EXCEPT ![c] = CallReason]
    /\ before' = [before EXCEPT ![c] = oldest_id[c]]
    /\ attempt' = [attempt EXCEPT ![c] = 0]
    /\ UNCHANGED <<cfgvars, auxvars, log, posts, oldest_id, newest_id, empty_page_count,
                   emptyStreak, main_pc, sorted_posts>>

\* variant of RequestFails where giving up ends every walker of the run
RequestFails_abortAll(c) ==
    /\ Running
    /\ pc[c] = "fetching"
    /\ IF HasNextAttempt(attempt[c])
       THEN /\ attempt' = [attempt EXCEPT ![c] = @ + 1]
            /\ UNCHANGED <<pc, stop_reason, before>>
       ELSE /\ pc' = [d \in Channels |-> "stopped"]
            /\ stop_reason' = [d \in Channels |->
                                 IF d = c THEN "fetch_failed"
                                 ELSE IF pc[d] = "stopped" THEN stop_reason[d]
                                 ELSE "cancelled"]
            /\ attempt' = [d \in Channels |-> 0]
            /\ before' = [d \in Channels |-> None]
    /\ log' = Logged(c, Event("fail", <<>>))
    /\ UNCHANGED <<cfgvars, auxvars, posts, oldest_id, newest_id, empty_page_count,
                   emptyStreak, main_pc, sorted_posts>>

\* lines 213-219: ClientError or timeout on the attempt in flight; retry after
\* retry_delay with the same url, or give up and return None (line 267: break)
RequestFails(c) ==
    /\ Running
    /\ pc[c] = "fetching"
    /\ IF HasNextAttempt(attempt[c])
       THEN /\ attempt' = [attempt EXCEPT ![c] = @ + 1]
            /\ UNCHANGED <<pc, stop_reason>>
       ELSE /\ pc' = [pc EXCEPT ![c] = "stopped"]
            /\ stop_reason' = [stop_reason EXCEPT ![c] = "fetch_failed"]
            /\ attempt' = [attempt EXCEPT ![c] = 0]
    /\ before' = [before EXCEPT ![c] =
                     IF HasNextAttempt(attempt[c]) THEN @ ELSE None]
    /\ log' = Logged(c, Event("fail", <<>>))
    /\ UNCHANGED <<cfgvars, auxvars, posts, oldest_id, newest_id, empty_page_count,
                   emptyStreak, main_pc, sorted_posts>>

\* line 212 returns an empty body: falsy at line 267, break
EmptyBody(c) ==
    /\ Running
    /\ pc[c] = "fetching"
    /\ pc' = [pc EXCEPT ![c] = "stopped"]
    /\ stop_reason' = [stop_reason EXCEPT ![c] = "no_content"]
    /\ attempt' = [attempt EXCEPT ![c] = 0]
    /\ before' = [before EXCEPT ![c] = None]
    /\ log' = Logged(c, Event("empty_body", <<>>))
    /\ UNCHANGED <<cfgvars, auxvars, posts, oldest_id, newest_id, empty_page_count,
                   emptyStreak, main_pc, sorted_posts>>

\* the attempt in flight succeeds with a page of fragments: lines 270-318 run
\* to the next await (the sleep of line 315, or the request of the next fetch
\* after `continue`) or to a break
ReceivePage(c, page) ==
    /\ Running
    /\ pc[c] = "fetching"
    /\ LET r == ProcessPage(c, page)
       IN  /\ posts' = [posts EXCEPT ![c] = r.posts]
           /\ oldest_id' = [oldest_id EXCEPT ![c] = r.oldest]
           /\ newest_id' = [newest_id EXCEPT ![c] = r.newest]
           /\ empty_page_count' = [empty_page_count EXCEPT ![c] = r.count]
           /\ emptyStreak' = [emptyStreak EXCEPT ![c] =
                                 IF Len(page) = 0 THEN Sat(@ + 1) ELSE 0]
           /\ IF r.end = "continue"
              THEN /\ pc' = [pc EXCEPT ![c] = CallPc]
                   /\ stop_reason' = [stop_reason EXCEPT ![c] = CallReason]
                   /\ before' = [before EXCEPT ![c] = r.oldest]
                   /\ attempt' = [attempt EXCEPT ![c] = 0]
              ELSE /\ pc' = [pc EXCEPT ![c] =
                                IF r.end = "sleep" THEN "sleeping" ELSE "stopped"]
                   /\ stop_reason' = [stop_reason EXCEPT ![c] =
                                IF r.end = "sleep" THEN "" ELSE r.end]
                   /\ before' = [before EXCEPT ![c] = None]
                   /\ attempt' = [attempt EXCEPT ![c] = 0]
    /\ log' = Logged(c, Event("page", page))
    /\ UNCHANGED <<cfgvars, auxvars, main_pc, sorted_posts>>

\* line 315 returns: next iteration, get_page_content(session, self.oldest_id)
Wake(c) ==
    /\ Running
    /\ pc[c] = "sleeping"
    /\ pc' = [pc EXCEPT ![c] = CallPc]
    /\ stop_reason' = [stop_reason EXCEPT ![c] = CallReason]
    /\ before' = [before EXCEPT ![c] = oldest_id[c]]
    /\ attempt' = [attempt EXCEPT ![c] = 0]
    /\ UNCHANGED <<cfgvars, auxvars, log, posts, oldest_id, newest_id, empty_page_count,
                   emptyStreak, main_pc, sorted_posts>>

(***************************************************************************)
(* The coordinator                                                         *)
(***************************************************************************)
\* variant of GatherDone that returns when the first walker has returned
GatherDone_first == \E c \in Channels : pc[c] = "stopped"

\* await asyncio.gather(*tasks) returns: every scrape_channel has returned
GatherDone == \A c \in Channels : pc[c] = "stopped"

\* operator interrupt: the main task is cancelled while it awaits gather,
\* gather cancels every unfinished walker, each of which ends at its await
\* without running any more of its loop
Interrupt ==
    /\ Running
    /\ ~GatherDone
    /\ pc' = [c \in Channels |-> "stopped"]
    /\ stop_reason' = [c \in Channels |->
                          IF pc[c] = "stopped" THEN stop_reason[c] ELSE "cancelled"]
    /\ attempt' = [c \in Channels |-> 0]
    /\ before' = [c \in Channels |-> None]
    /\ UNCHANGED <<cfgvars, auxvars, log, posts, oldest_id, newest_id, empty_page_count,
                   emptyStreak, main_pc, sorted_posts>>

\* lines 339-341
AllPosts == Flatten([i \in 1..Len(channels) |-> posts[channels[i]]])

\* variant of InsertByDate without reverse=True: ascending by date
InsertByDate_ascending(s, m) ==
    LET k == Cardinality({i \in 1..Len(s) : DateRank(s[i].date) <= DateRank(m.date)})
    IN  SubSeq(s, 1, k) \o <<m>> \o SubSeq(s, k + 1, Len(s))

\* sorted(all_posts, key=lambda x: x.date, reverse=True): stable, so records
\* with equal dates keep their order
InsertByDate(s, m) ==
    LET k == Cardinality({i \in 1..Len(s) : DateRank(s[i].date) >= DateRank(m.date)})
    IN  SubSeq(s, 1, k) \o <<m>> \o SubSeq(s, k + 1, Len(s))

RECURSIVE SortedByDateDesc(_)
SortedByDateDesc(s) ==
    IF s = <<>> THEN <<>>
    ELSE InsertByDate(SortedByDateDesc(SubSeq(s, 1, Len(s) - 1)), s[Len(s)])

\* the operator interrupt has been honoured: some walker was cancelled
Interrupted == \E c \in Channels : stop_reason[c] = "cancelled"

\* variant of save_results outside a finally clause: after an interrupt the
\* run ends with nothing handed to the sink
save_results_unlessInterrupted ==
    /\ Running
    /\ GatherDone
    /\ sorted_posts' = IF Interrupted THEN <<>> ELSE SortedByDateDesc(AllPosts)
    /\ main_pc' = "finished"
    /\ UNCHANGED <<cfgvars, auxvars, log, posts, oldest_id, newest_id, empty_page_count, pc,
                   attempt, before, stop_reason, emptyStreak>>

\* main(): the finally clause runs save_results once scrape_all_channels is over
save_results ==
    /\ Running
    /\ GatherDone
    /\ sorted_posts' = SortedByDateDesc(AllPosts)
    /\ main_pc' = "finished"
    /\ UNCHANGED <<cfgvars, auxvars, log, posts, oldest_id, newest_id, empty_page_count, pc,
                   attempt, before, stop_reason, emptyStreak>>

(***************************************************************************)
(* Properties                                                              *)
(***************************************************************************)
\* the cursor as a number, when it is one
CursorAtMost(c, n) == IsInt(oldest_id[c]) /\ int(oldest_id[c]) <= n

IsPrefix(s, t) == Len(s) <= Len(t) /\ SubSeq(t, 1, Len(s)) = s

\* C1: a page with fragments but no newly accepted record is counted like a
\* page without fragments: when the walker goes on after such a page, the
\* consecutive-empty-pages counter is one more than before it.
C1_ZeroNewCountedLikeEmpty ==
    [][\A c \in Channels :
          (pc[c] = "fetching" /\ pc'[c] = "sleeping" /\ posts'[c] = posts[c])
              => empty_page_count'[c] = empty_page_count[c] + 1]_vars

\* C2: after max_empty_pages consecutive pages without fragments the walker
\* is stopped, and a stopped walker never fetches again.
C2_EmptyPagesStop ==
    /\ [](\A c \in Channels :
             emptyStreak[c] >= max_empty_pages => pc[c] = "stopped")
    /\ [][\A c \in Channels : pc[c] = "stopped" => pc'[c] = "stopped"]_vars

C2_Witness ==
    \E c \in Channels :
        /\ emptyStreak[c] = max_empty_pages
        /\ stop_reason[c] = "empty_limit"
        /\ pc[c] = "stopped"

\* C3 as claimed: a walker configured with start id F never has a fetch in
\* flight whose cursor is below F.
C3_NeverFetchBelowFloor ==
    \A c \in Channels :
        (IsInt(start_ids[c]) /\ pc[c] = "fetching" /\ IsInt(before[c]))
            => int(before[c]) >= int(start_ids[c])

\* C3 as amended: the configured start id is the initial cursor, not a lower
\* bound: the first fetch uses it, and every fetch uses a numeric cursor that
\* is at most the start id.
C3_StartIdIsInitialCursor ==
    \A c \in Channels :
        (IsInt(start_ids[c]) /\ pc[c] = "fetching")
            => /\ IsInt(before[c])
               /\ int(before[c]) <= int(start_ids[c])
               /\ (posts[c] = <<>> => before[c] = start_ids[c])

C3_Witness ==
    \E c \in Channels :
        /\ IsInt(start_ids[c])
        /\ pc[c] = "fetching"
        /\ IsInt(before[c])
        /\ int(before[c]) < int(start_ids[c])

\* C4: once set, the cursor only moves to a smaller id, and the cursor of the
\* fetch in flight is the walker's cursor, so successive fetches use
\* non-increasing cursors.
C4_CursorNonIncreasing ==
    /\ [][\A c \in Channels :
             Truthy(oldest_id[c])
                 => \/ oldest_id'[c] = oldest_id[c]
                    \/ /\ IsInt(oldest_id[c])
                       /\ IsInt(oldest_id'[c])
                       /\ int(oldest_id'[c]) < int(oldest_id[c])]_vars
    /\ [](\A c \in Channels : pc[c] = "fetching" => before[c] = oldest_id[c])

C4_Witness ==
    \E c \in Channels :
        /\ Len(posts[c]) >= 2
        /\ IsInt(posts[c][1].message_id)
        /\ IsInt(oldest_id[c])
        /\ int(oldest_id[c]) < int(posts[c][1].message_id)
        /\ pc[c] = "fetching"

\* C5: every step keeps the records already accepted as they are, in place
\* (a fragment whose id is already stored changes nothing), and no id is
\* stored twice.
C5_FirstRecordRetained ==
    /\ [][\A c \in Channels : IsPrefix(posts[c], posts'[c])]_vars
    /\ [](\A c \in Channels :
             \A i, j \in 1..Len(posts[c]) :
                 posts[c][i].message_id = posts[c][j].message_id => i = j)

\* two channels are served accepted messages only: the walker of channel A
\* has just gone through a page on which every fragment was a duplicate
C5_Witness ==
    /\ Len(channels) = 2
    /\ posts["A"] # <<>>
    /\ empty_page_count["A"] = 1
    /\ emptyStreak["A"] = 0

\* C6: every stored record has an id and a text or a photo reference.
C6_RetentionInvariant ==
    \A c \in Channels :
        \A i \in 1..Len(posts[c]) :
            /\ posts[c][i].message_id # ""
            /\ (posts[c][i].text # "" \/ posts[c][i].photo_url # "")

\* a page with fragments left nothing stored: every record on it was rejected
C6_Witness ==
    \E c \in Channels :
        /\ posts[c] = <<>>
        /\ empty_page_count[c] = 1
        /\ emptyStreak[c] = 0
        /\ pc[c] = "sleeping"

\* C7 as claimed: a walker whose cursor is at id 1 or lower has no fetch in
\* flight.
C7_NoFetchAtEarliest ==
    \A c \in Channels : CursorAtMost(c, 1) => pc[c] # "fetching"

\* C7 as amended: a walker never goes on after a page with fragments when its
\* cursor is at id 1 or lower; the only walker that fetches with such a
\* cursor is one configured with that start id which has so far received
\* nothing but pages without fragments.
C7_StopsAfterPageAtEarliest ==
    \A c \in Channels :
        (CursorAtMost(c, 1) /\ pc[c] \notin {"created", "stopped"})
            => /\ pc[c] = "fetching"
               /\ oldest_id[c] = start_ids[c]
               /\ posts[c] = <<>>
               /\ newest_id[c] = None
               /\ emptyStreak[c] = empty_page_count[c]

C7_Witness ==
    \E c \in Channels :
        /\ stop_reason[c] = "earliest"
        /\ oldest_id[c] = "1"
        /\ start_ids[c] # "1"
        /\ empty_page_count[c] < max_empty_pages

\* C8: a fetch makes at most max_retries attempts, all with the cursor the
\* walker had when the fetch began; giving up happens on the last attempt
\* only, stops the walker and stores nothing.
C8_BoundedRetry ==
    /\ [](\A c \in Channels :
             pc[c] = "fetching"
                 => attempt[c] + 1 <= max_retries /\ before[c] = oldest_id[c])
    /\ [][\A c \in Channels :
             /\ (pc[c] = "fetching" /\ pc'[c] = "fetching"
                     /\ attempt'[c] # attempt[c] /\ attempt'[c] # 0)
                    => /\ attempt'[c] = attempt[c] + 1
                       /\ before'[c] = before[c]
                       /\ posts'[c] = posts[c]
                       /\ oldest_id'[c] = oldest_id[c]
             /\ (stop_reason'[c] = "fetch_failed" /\ stop_reason[c] # "fetch_failed")
                    => /\ attempt[c] + 1 = max_retries
                       /\ pc'[c] = "stopped"
                       /\ posts'[c] = posts[c]]_vars

\* a walker gave up on a fetch after it had accepted records from earlier pages
C8_Witness ==
    \E c \in Channels :
        /\ stop_reason[c] = "fetch_failed"
        /\ posts[c] # <<>>

\* what belongs to the walker of one channel
WalkerState(c) ==
    <<posts[c], oldest_id[c], newest_id[c], empty_page_count[c], pc[c],
      attempt[c], before[c], stop_reason[c], emptyStreak[c]>>

WalkerFailed(c) == stop_reason[c] \in {"fetch_failed", "no_content", "error"}

\* C9: the step in which a walker stops on a fetch failure or an error
\* changes nothing of any other walker, and keeps the records it accepted.
C9_FailureIsContained ==
    [][\A c \in Channels :
          (pc[c] # "stopped" /\ WalkerFailed(c)')
              => /\ IsPrefix(posts[c], posts'[c])
                 /\ \A d \in Channels \ {c} : WalkerState(d)' = WalkerState(d)]_vars

\* channel A's walker has failed with records stored, channel B's still runs
C9_Witness ==
    /\ Len(channels) = 2
    /\ stop_reason["A"] = "fetch_failed"
    /\ posts["A"] # <<>>
    /\ pc["B"] = "sleeping"
    /\ posts["B"] # <<>>

\* C10: save_results has run only when every walker has stopped, and no
\* walker's posts change afterwards.
C10_AggregateAfterAllStopped ==
    /\ [](main_pc = "finished" => \A c \in Channels : pc[c] = "stopped")
    /\ [][main_pc = "finished" => posts' = posts]_vars

C10_Witness ==
    /\ main_pc = "finished"
    /\ Len(channels) = 2
    /\ \A c \in Channels : posts[c] # <<>> /\ stop_reason[c] # "cancelled"
    /\ Len(sorted_posts) >= 3


\* the places of all walkers' seen maps: <<channel, index>>
SeenPlaces == UNION {{<<c, i>> : i \in 1..Len(posts[c])} : c \in Channels}

\* how often record r occurs in sequence s
Occurrences(s, r) == Cardinality({i \in 1..Len(s) : s[i] = r})

\* C11: the sequence handed to the sink is a permutation of all walkers'
\* seen records (every record occurs as often as it occurs in the seen maps,
\* whichever channel it came from) and its dates are descending
C11_SinkGetsSortedPermutation ==
    main_pc = "finished" =>
        /\ Len(sorted_posts) = Cardinality(SeenPlaces)
        /\ \A p \in SeenPlaces :
              Occurrences(sorted_posts, posts[p[1]][p[2]])
                  = Cardinality({q \in SeenPlaces : posts[q[1]][q[2]] = posts[p[1]][p[2]]})
        /\ \A i \in 1..(Len(sorted_posts) - 1) :
              DateRank(sorted_posts[i].date) >= DateRank(sorted_posts[i + 1].date)

\* two channels have records, the second channel's newest record is newer
\* than every record of the first channel and was moved to the front, and
\* one record is held by both channels
C11_Witness ==
    /\ main_pc = "finished"
    /\ Len(channels) = 2
    /\ Len(posts[channels[1]]) >= 2
    /\ Len(posts[channels[2]]) >= 2
    /\ sorted_posts[1] \in Seq2Set(posts[channels[2]])
    /\ sorted_posts[1] \notin Seq2Set(posts[channels[1]])
    /\ Seq2Set(posts[channels[1]]) \cap Seq2Set(posts[channels[2]]) # {}
    /\ sorted_posts # AllPosts

(***************************************************************************)
(* parse_message on its own: every combination of what the two parsers     *)
(* can return for one fragment, each field empty or not                    *)
(***************************************************************************)
\* what parse_with_bs4 can return: each field empty or one value
Bs4Results ==
    [message_id : {"", "3"}, date : {"", D3}, text : {"", "edited"},
     photo_url : {"", "http://x/img.jpg"}]

\* what parse_with_regex can return: each field empty, the value bs4 finds,
\* or another value
RegexResults ==
    [message_id : {"", "3", "2"}, date : {"", D3, D2}, text : {"", "edited", "hello"},
     photo_url : {"", "http://x/img.jpg", "http://y/img.jpg"}]

ParseInputs ==
    {Fragment(FALSE, b, r) : b \in Bs4Results, r \in RegexResults} \cup {Boom}

\* no walker exists; one fragment is about to be parsed
ParseInit ==
    /\ channels = <<>>
    /\ start_ids = <<>>
    /\ server = <<>>
    /\ posts = <<>>
    /\ oldest_id = <<>>
    /\ newest_id = <<>>
    /\ empty_page_count = <<>>
    /\ pc = <<>>
    /\ attempt = <<>>
    /\ before = <<>>
    /\ stop_reason = <<>>
    /\ emptyStreak = <<>>
    /\ main_pc = "parser"
    /\ sorted_posts = <<>>
    /\ config_file = ConfigFile("ok", <<>>, <<>>)
    /\ args = Args(<<>>)
    /\ message_html \in ParseInputs
    /\ parsed_message = <<>>
    /\ log = <<>>

\* parsed_message = self.parse_message(str(message)), when it returns
ParseMessage ==
    /\ main_pc = "parser"
    /\ parsed_message = <<>>
    /\ ~message_html.raises
    /\ parsed_message' = <<parse_message(message_html)>>
    /\ UNCHANGED <<cfgvars, posts, oldest_id, newest_id, empty_page_count, pc, attempt,
                   before, stop_reason, emptyStreak, main_pc, sorted_posts,
                   config_file, args, message_html, log>>

ParseNext == ParseMessage

ParseSpec == ParseInit /\ [][ParseNext]_vars

\* C12: parse_message merges per field: each field of the result is the
\* bs4 value when that is non-empty, otherwise the regex value (empty when
\* both are empty); a non-empty bs4 value is never replaced
C12_MergePerField ==
    parsed_message # <<>> =>
        \A k \in Keys :
            parsed_message[1][k] = IF message_html.bs4[k] # ""
                                   THEN message_html.bs4[k]
                                   ELSE message_html.regex[k]

\* one fragment for which the merge takes fields from both parsers: bs4
\* finds the photo (regex finds another one) and no text, regex finds the
\* text, and neither finds a date
C12_Witness ==
    /\ parsed_message # <<>>
    /\ message_html.bs4.photo_url # ""
    /\ message_html.regex.photo_url \notin {"", message_html.bs4.photo_url}
    /\ message_html.bs4.text = ""
    /\ message_html.regex.text # ""
    /\ message_html.bs4.date = ""
    /\ message_html.regex.date = ""
    /\ parsed_message[1].photo_url = message_html.bs4.photo_url
    /\ parsed_message[1].text = message_html.regex.text
    /\ parsed_message[1].date = ""

\* C13: once an operator interrupt is honoured, every walker is stopped and
\* stays so (no fetch is in flight or issued, no record is added), main is
\* where save_results runs (gather is over) and its next step is
\* save_results, and the sink gets exactly the records accepted before the
\* interrupt
C13_InterruptDeliversPartialResults ==
    /\ [](Interrupted => \A c \in Channels : pc[c] = "stopped")
    /\ [][Interrupted => UNCHANGED <<posts, pc, before, attempt>>]_vars
    /\ [](Interrupted /\ main_pc # "finished" => Running /\ GatherDone)
    /\ [][Interrupted => main_pc' = "finished"]_vars
    /\ [](Interrupted /\ main_pc = "finished" =>
             /\ Len(sorted_posts) = Cardinality(SeenPlaces)
             /\ \A p \in SeenPlaces : posts[p[1]][p[2]] \in Seq2Set(sorted_posts))

\* an interrupted run has finished: a cancelled walker had accepted records
\* and they were handed to the sink
C13_Witness ==
    /\ main_pc = "finished"
    /\ \E c \in Channels :
          /\ stop_reason[c] = "cancelled"
          /\ posts[c] # <<>>
          /\ \A i \in 1..Len(posts[c]) : posts[c][i] \in Seq2Set(sorted_posts)

(***************************************************************************)
(* main() from its first line: load_config, the command-line override,     *)
(* the channels check and the construction of the walkers                  *)
(***************************************************************************)
\* DEFAULT_CONFIG: no channels, no start ids (a dict as a function)
DEFAULT_CONFIG == [channels |-> <<>>, start_ids |-> <<>>]

\* load_config: the file's keys over the defaults; the defaults when the
\* file is missing (FileNotFoundError) or is not YAML (yaml.YAMLError)
load_config(file) ==
    IF file.status = "ok"
    THEN [DEFAULT_CONFIG EXCEPT !.channels = file.channels, !.start_ids = file.start_ids]
    ELSE DEFAULT_CONFIG

\* main, lines 359-366: args.channels, when given, replaces config['channels']
MainConfig ==
    LET config == load_config(config_file)
    IN  IF args.channels # <<>> THEN [config EXCEPT !.channels = args.channels] ELSE config

\* variant of NoChannels that looks at the command line only
NoChannels_argsOnly(config) == args.channels = <<>>

\* if not config['channels']
NoChannels(config) == config.channels = <<>>

\* config['start_ids'].get(channel_name)
StartId(config, c) ==
    IF c \in DOMAIN config.start_ids THEN config.start_ids[c] ELSE None

\* a command line that names channel A, with the pages its server has
CliA == [args |-> Args(<<"A">>), server |-> [c \in {"A"} |-> {M2, M1}]]
NoCli == [args |-> Args(<<>>), server |-> <<>>]

\* what main can find: each scenario as a readable file and no --channels;
\* a missing or an unparseable file, a file without channels and a file
\* naming channel B, each with and without --channels A
StartupInputs ==
    {[config_file |-> ConfigFile("ok", sc.channels, sc.start_ids),
      args |-> Args(<<>>), server |-> sc.server] : sc \in Scenarios}
    \cup
    {[config_file |-> f, args |-> cli.args, server |-> cli.server] :
        f \in {ConfigFile("missing", <<>>, <<>>), ConfigFile("bad_yaml", <<>>, <<>>),
               ConfigFile("ok", <<>>, <<>>)},
        cli \in {CliA, NoCli}}
    \cup
    {[config_file |-> ConfigFile("ok", <<"B">>, [c \in {"B"} |-> "3"]),
      args |-> CliA.args, server |-> CliA.server]}

\* the process has started: nothing is constructed yet
StartupInit ==
    /\ \E in \in StartupInputs :
          /\ config_file = in.config_file
          /\ args = in.args
          /\ server = in.server
    /\ channels = <<>>
    /\ start_ids = <<>>
    /\ posts = <<>>
    /\ oldest_id = <<>>
    /\ newest_id = <<>>
    /\ empty_page_count = <<>>
    /\ pc = <<>>
    /\ attempt = <<>>
    /\ before = <<>>
    /\ stop_reason = <<>>
    /\ emptyStreak = <<>>
    /\ main_pc = "startup"
    /\ sorted_posts = <<>>
    /\ message_html = Boom
    /\ parsed_message = <<>>
    /\ log = <<>>

\* main, lines 353-372: sys.exit(1) without channels, else one
\* TelegramChannelScraper per channel
main_startup ==
    /\ main_pc = "startup"
    /\ LET config == MainConfig
           chs == Seq2Set(config.channels)
       IN  IF NoChannels(config)
           THEN /\ main_pc' = "exit"
                /\ UNCHANGED <<channels, start_ids, posts, oldest_id, newest_id,
                               empty_page_count, pc, attempt, before, stop_reason,
                               emptyStreak>>
           ELSE /\ main_pc' = "gather"
                /\ channels' = config.channels
                /\ start_ids' = [c \in chs |-> StartId(config, c)]
                /\ posts' = [c \in chs |-> <<>>]
                /\ oldest_id' = [c \in chs |-> StartId(config, c)]
                /\ newest_id' = [c \in chs |-> None]
                /\ empty_page_count' = [c \in chs |-> 0]
                /\ pc' = [c \in chs |-> "created"]
                /\ attempt' = [c \in chs |-> 0]
                /\ before' = [c \in chs |-> None]
                /\ stop_reason' = [c \in chs |-> ""]
                /\ emptyStreak' = [c \in chs |-> 0]
    /\ UNCHANGED <<server, sorted_posts, auxvars, log>>

\* neither the configuration file (if it could be read) nor the command
\* line names a channel
NoChannelsConfigured ==
    /\ args.channels = <<>>
    /\ config_file.status # "ok" \/ config_file.channels = <<>>

\* C14 as claimed: with no channels configured, or with a configuration
\* file that is missing or cannot be parsed, the run ends at startup: no
\* walker is created and no fetch is issued
C14_ConfigFailureIsFatal ==
    (NoChannelsConfigured \/ config_file.status # "ok") =>
        /\ main_pc \in {"startup", "exit"}
        /\ channels = <<>>

\* C14 as the code has it: the run ends at startup, with no walker and no
\* fetch, exactly when no channel is configured; a missing or unparseable
\* file alone is not fatal: with channels on the command line the walkers
\* are created from them with the default settings (no start ids)
C14_NoChannelsIsFatal ==
    /\ NoChannelsConfigured => main_pc \in {"startup", "exit"} /\ channels = <<>>
    /\ main_pc = "exit" => NoChannelsConfigured /\ channels = <<>>
    /\ (config_file.status # "ok" /\ main_pc \notin {"startup", "exit"}) =>
           /\ channels = args.channels
           /\ channels # <<>>
           /\ \A c \in Channels : start_ids[c] = None

\* a run whose configuration file is missing and whose command line names
\* no channel has exited at startup
C14_Witness ==
    /\ main_pc = "exit"
    /\ config_file.status = "missing"
    /\ args.channels = <<>>
    /\ channels = <<>>

\* C15: under fair scheduling every walker eventually stops, whatever the
\* server answers, so gather returns and the aggregate is produced
C15_EveryWalkerStops ==
    /\ <>(\A c \in Channels : pc[c] = "stopped")
    /\ <>(main_pc = "finished")

\* the walker's fields when it starts on a page, and before the i-th
\* fragment of the page
PageStart(c) ==
    [posts |-> posts[c], oldest |-> oldest_id[c], newest |-> newest_id[c], new |-> 0]

StateBefore(c, page, i) == ProcessFragments(PageStart(c), SubSeq(page, 1, i - 1))

\* C16: an error raised while one fragment is processed does not end the
\* walk: for every page a fetching walker can receive in which some fragment
\* raises, every fragment of the page that does not raise is processed
\* (its record, if retained, is in posts afterwards), the iteration goes on
\* to the checks of lines 303-313, and when no stop condition holds the
\* walker sleeps and fetches again; the walk ends in an error only when the
\* check of line 311 itself raises on a non-numeric cursor
C16_FragmentErrorDoesNotEndWalk ==
    \A c \in Channels :
        pc[c] = "fetching" =>
            \A page \in Pages(c) :
                (\E i \in 1..Len(page) : FragmentRaises(StateBefore(c, page, i), page[i])) =>
                    LET r == ProcessPage(c, page)
                    IN  /\ \A j \in 1..Len(page) :
                              (~page[j].raises /\ Retained(parse_message(page[j])))
                                  => InPosts(parse_message(page[j]).message_id, r.posts)
                        /\ r.end \in {"sleep", "empty_limit", "earliest", "error"}
                        /\ r.end = "error" => Truthy(r.oldest) /\ ~IsInt(r.oldest)
                        /\ (r.new > 0 /\ IsInt(r.oldest) /\ int(r.oldest) > 1)
                              => r.end = "sleep"

\* a walker that started at cursor 3 stored the record with the non-numeric
\* id (line 294 raised: the cursor is still 3) and after it record 2 (line
\* 292 raised: the cursor is still 3), and is fetching again
C16_Witness ==
    \E c \in Channels :
        /\ pc[c] = "fetching"
        /\ Len(posts[c]) >= 2
        /\ posts[c][1].message_id = "x"
        /\ posts[c][2].message_id = "2"
        /\ newest_id[c] = "x"
        /\ oldest_id[c] = "3"

\* C17: a fragment whose processing raises is skipped in full: posts,
\* oldest_id and newest_id are afterwards what they were before it
C17_FailingFragmentLeavesNoTrace ==
    \A c \in Channels :
        pc[c] = "fetching" =>
            \A page \in Pages(c) :
                \A i \in 1..Len(page) :
                    LET st == StateBefore(c, page, i)
                        after == ProcessFragment(st, page[i])
                    IN  FragmentRaises(st, page[i]) =>
                            /\ after.posts = st.posts
                            /\ after.oldest = st.oldest
                            /\ after.newest = st.newest

\* C18: a page without fragments that does not reach max_empty_pages changes
\* only the empty-page counter: posts, oldest_id and newest_id are unchanged,
\* the counter is one more, and the next fetch is issued at once with the
\* cursor of the previous fetch
C18_EmptyPageChangesOnlyCounter ==
    [][\A c \in Channels :
          (emptyStreak'[c] > emptyStreak[c] /\ empty_page_count[c] + 1 < max_empty_pages) =>
              /\ posts'[c] = posts[c]
              /\ oldest_id'[c] = oldest_id[c]
              /\ newest_id'[c] = newest_id[c]
              /\ empty_page_count'[c] = empty_page_count[c] + 1
              /\ pc'[c] = "fetching"
              /\ stop_reason'[c] = ""
              /\ before'[c] = before[c]
              /\ before'[c] = oldest_id'[c]]_vars

\* a walker that holds records has received two pages without fragments in
\* a row and is fetching again with its cursor
C18_Witness ==
    \E c \in Channels :
        /\ emptyStreak[c] = 2
        /\ empty_page_count[c] = 2
        /\ posts[c] # <<>>
        /\ pc[c] = "fetching"
        /\ Truthy(oldest_id[c])
        /\ before[c] = oldest_id[c]

\* the ids of a walker's seen records, as numbers, when all are numeric
NumericIds(c) == \A i \in 1..Len(posts[c]) : IsInt(posts[c][i].message_id)
SeenIds(c) == {int(posts[c][i].message_id) : i \in 1..Len(posts[c])}

\* C19: for a walker that has accepted records, all with numeric ids,
\* newest_id is the largest id in posts and oldest_id is at most the
\* smallest; without a configured start id oldest_id is the smallest
C19_MarksBoundSeen ==
    \A c \in Channels :
        (posts[c] # <<>> /\ NumericIds(c)) =>
            /\ IsInt(newest_id[c])
            /\ int(newest_id[c]) \in SeenIds(c)
            /\ \A n \in SeenIds(c) : n <= int(newest_id[c])
            /\ IsInt(oldest_id[c])
            /\ \A n \in SeenIds(c) : int(oldest_id[c]) <= n
            /\ start_ids[c] = None => int(oldest_id[c]) \in SeenIds(c)

\* a walker without start id accepted record 2, then 3, then 1: both marks
\* have moved
C19_Witness ==
    \E c \in Channels :
        /\ start_ids[c] = None
        /\ Len(posts[c]) = 3
        /\ NumericIds(c)
        /\ posts[c][1].message_id = "2"
        /\ posts[c][2].message_id = "3"
        /\ posts[c][3].message_id = "1"
        /\ newest_id[c] = "3"
        /\ oldest_id[c] = "1"

(***************************************************************************)
(* One walker run alone against a given sequence of responses              *)
(***************************************************************************)
\* __init__ (lines 188-198) and the first line of scrape_channel
SoloStart(start) ==
    [posts |-> <<>>, oldest |-> start, newest |-> None, count |-> 0, attempt |-> 0,
     reason |-> CallReason]

\* the walker after one more response; reason # "" when it has left its loop
SoloStep(w, ev) ==
    IF w.reason # "" THEN w
    ELSE IF ev.kind = "fail"
    THEN IF HasNextAttempt(w.attempt)
         THEN [w EXCEPT !.attempt = @ + 1]
         ELSE [w EXCEPT !.attempt = 0, !.reason = "fetch_failed"]
    ELSE IF ev.kind = "empty_body"
    THEN [w EXCEPT !.attempt = 0, !.reason = "no_content"]
    ELSE LET r == ProcessPageFrom([posts |-> w.posts, oldest |-> w.oldest,
                                   newest |-> w.newest, count |-> w.count], ev.page)
         IN  [posts |-> r.posts, oldest |-> r.oldest, newest |-> r.newest,
              count |-> r.count, attempt |-> 0,
              reason |-> IF r.end \in {"continue", "sleep"} THEN CallReason ELSE r.end]

RECURSIVE SoloRun(_, _)
SoloRun(w, evs) ==
    IF evs = <<>> THEN w ELSE SoloRun(SoloStep(w, Head(evs)), Tail(evs))

\* C20: walkers do not interfere: whatever the other walkers do in between,
\* a walker's posts, oldest_id, newest_id and empty-page counter are those it
\* reaches when it runs alone against the responses it has received, and so
\* is the way its walk ends unless the run is interrupted
C20_WalkersDoNotInterfere ==
    \A c \in DOMAIN log :
        LET w == SoloRun(SoloStart(start_ids[c]), log[c])
        IN  /\ posts[c] = w.posts
            /\ oldest_id[c] = w.oldest
            /\ newest_id[c] = w.newest
            /\ empty_page_count[c] = w.count
            /\ stop_reason[c] # "cancelled" =>
                  /\ stop_reason[c] = w.reason
                  /\ attempt[c] = w.attempt
                  /\ (pc[c] = "stopped") = (w.reason # "")

\* the logged walker has ended its walk by itself after two responses, the
\* second of which repeated a record that another walker had stored before
\* and still holds; that walker has received responses of its own
C20_Witness ==
    \E c \in DOMAIN log :
        /\ pc[c] = "stopped"
        /\ stop_reason[c] \notin {"", "cancelled"}
        /\ Len(log[c]) = MaxLog
        /\ posts[c] # <<>>
        /\ \E d \in Channels \ {c} :
              /\ PostIds(posts[d]) \cap PostIds(posts[c]) # {}
              /\ posts[d] # posts[c]
              /\ pc[d] \in {"fetching", "sleeping"}

(***************************************************************************)
(* The specifications                                                      *)
(***************************************************************************)
Next ==
    \/ \E c \in Channels : Start(c)
    \/ \E c \in Channels : RequestFails(c)
    \/ \E c \in Channels : EmptyBody(c)
    \/ \E c \in Channels : \E page \in Pages(c) : ReceivePage(c, page)
    \/ \E c \in Channels : Wake(c)
    \/ Interrupt
    \/ save_results

Spec == Init /\ [][Next]_vars

(***************************************************************************)
(* Fair scheduling: the event loop runs every task that can run, every     *)
(* request is answered or times out, and main's finally clause is run      *)
(***************************************************************************)
WalkerStep(c) ==
    /\ c \in Channels
    /\ \/ Start(c)
       \/ RequestFails(c)
       \/ EmptyBody(c)
       \/ \E page \in Pages(c) : ReceivePage(c, page)
       \/ Wake(c)

FairSpec ==
    /\ Spec
    /\ WF_vars(WalkerStep("A"))
    /\ WF_vars(WalkerStep("B"))
    /\ WF_vars(save_results)

\* the run from the start of main()
StartupNext ==
    \/ main_startup
    \/ Next

StartupSpec == StartupInit /\ [][StartupNext]_vars

(***************************************************************************)
(* Two walkers, one of them logged: the responses it receives are recorded *)
(* up to MaxLog of them                                                    *)
(***************************************************************************)
LogInit ==
    /\ channels = <<"B", "A">>
    /\ start_ids = [c \in Channels |-> IF c = "B" THEN "3" ELSE None]
    /\ server = [c \in Channels |-> {M2, M1}]
    /\ posts = [c \in Channels |-> <<>>]
    /\ oldest_id = start_ids
    /\ newest_id = [c \in Channels |-> None]
    /\ empty_page_count = [c \in Channels |-> 0]
    /\ pc = [c \in Channels |-> "created"]
    /\ attempt = [c \in Channels |-> 0]
    /\ before = [c \in Channels |-> None]
    /\ stop_reason = [c \in Channels |-> ""]
    /\ emptyStreak = [c \in Channels |-> 0]
    /\ main_pc = "gather"
    /\ sorted_posts = <<>>
    /\ config_file = ConfigFile("ok", channels, start_ids)
    /\ args = Args(<<>>)
    /\ message_html = Boom
    /\ parsed_message = <<>>
    /\ \E c \in Channels : log = [d \in {c} |-> <<>>]

\* the logged walker receives at most MaxLog responses
LogRoom(c) == c \in DOMAIN log => Len(log[c]) < MaxLog

\* the pages served to a logged walker have at most one fragment
LogPages(c) == {page \in Pages(c) : c \in DOMAIN log => Len(page) <= 1}

LogNext ==
    \/ \E c \in Channels : Start(c)
    \/ \E c \in Channels : LogRoom(c) /\ RequestFails(c)
    \/ \E c \in Channels : LogRoom(c) /\ EmptyBody(c)
    \/ \E c \in Channels : \E page \in LogPages(c) : LogRoom(c) /\ ReceivePage(c, page)
    \/ \E c \in Channels : Wake(c)
    \/ Interrupt
    \/ save_results

LogSpec == LogInit /\ [][LogNext]_vars

====
